---- MODULE Spec2Model ----
(***************************************************************************)
(* A model of src/main.py: the command-line video editor (merge, trim,     *)
(* remove) built on moviepy.  One run of main() is one behaviour: the      *)
(* command line and the files it names are fixed in Init, the answers of   *)
(* the environment (the overwrite prompt, a failing encode, Ctrl-C) are    *)
(* chosen where the code meets them.                                       *)
(*                                                                         *)
(* Times are whole seconds (the code uses floats; fractions, inf and nan    *)
(* are left out).  A string is a tuple of one-character strings.           *)
(***************************************************************************)
EXTENDS Integers, Sequences, FiniteSets, TLC

VARIABLES
    pc,              \* position of main(): which statement runs next
    args,            \* the command line as argparse sees it
    output_exists,   \* os.path.exists(args.output)
    start_seconds,   \* parse_time(args.start)
    end_seconds,     \* parse_time(args.end)
    handles,         \* every clip object created so far, in creation order
    closed,          \* indices of handles on which close() was called
    clips,           \* merge: clips; remove: clips_to_concat (handle indices)
    final_clip,      \* index of final_clip / trimmed_clip, 0 before it exists
    total_duration,  \* merge: total_duration
    trimmed_duration,\* trim: trimmed_duration
    written,         \* the write_videofile calls: [clip, ok]
    success,         \* the value returned by merge_videos/trim_video/remove_segment
    response,        \* what input() returned at the overwrite prompt
    events,          \* order of validate / prompt / open / write
    outcome,         \* how the run ended
    exit_status      \* the process exit status, NoExit while running

vars == <<pc, args, output_exists, start_seconds, end_seconds, handles, closed,
          clips, final_clip, total_duration, trimmed_duration, written, success, response, events, outcome,
          exit_status>>

-----------------------------------------------------------------------------
(* Bounds *)

MaxDur == 3
MaxClips == 2

NoExit == 0 - 1

-----------------------------------------------------------------------------
(* parse_time *)

Digits == {"0", "1", "2", "3", "4", "5", "6", "7", "8", "9"}

DigitVal(c) ==
    CASE c = "0" -> 0 [] c = "1" -> 1 [] c = "2" -> 2 [] c = "3" -> 3
      [] c = "4" -> 4 [] c = "5" -> 5 [] c = "6" -> 6 [] c = "7" -> 7
      [] c = "8" -> 8 [] c = "9" -> 9

HasColon(s) == \E i \in 1..Len(s) : s[i] = ":"

FirstColon(s) == CHOOSE i \in 1..Len(s) : s[i] = ":" /\ \A j \in 1..(i-1) : s[j] # ":"

\* str.split(':')
RECURSIVE Split(_)
Split(s) ==
    IF ~HasColon(s) THEN <<s>>
    ELSE <<SubSeq(s, 1, FirstColon(s) - 1)>>
         \o Split(SubSeq(s, FirstColon(s) + 1, Len(s)))

Unsigned(p) == IF p # <<>> /\ p[1] \in {"-", "+"} THEN Tail(p) ELSE p

RECURSIVE NatVal(_)
NatVal(p) ==
    IF p = <<>> THEN 0
    ELSE NatVal(SubSeq(p, 1, Len(p) - 1)) * 10 + DigitVal(p[Len(p)])

\* float(p) succeeds: an optional sign and at least one digit
FloatOk(p) ==
    /\ Unsigned(p) # <<>>
    /\ \A i \in 1..Len(Unsigned(p)) : Unsigned(p)[i] \in Digits

\* float(p) when it succeeds
FloatVal(p) ==
    IF p[1] = "-" THEN 0 - NatVal(Unsigned(p)) ELSE NatVal(Unsigned(p))

Value(n) == [kind |-> "float", val |-> n]
RaisedValueError == [kind |-> "ValueError", val |-> 0]
ReturnedNone == [kind |-> "None", val |-> 0]
NotParsed == [kind |-> "unset", val |-> 0]

parse_time(time_str) ==
    IF HasColon(time_str) THEN
        LET parts == Split(time_str) IN
        IF Len(parts) = 2 THEN
            IF FloatOk(parts[1]) /\ FloatOk(parts[2])
            THEN Value(FloatVal(parts[1]) * 60 + FloatVal(parts[2]))
            ELSE RaisedValueError
        ELSE IF Len(parts) = 3 THEN
            IF FloatOk(parts[1]) /\ FloatOk(parts[2]) /\ FloatOk(parts[3])
            THEN Value(FloatVal(parts[1]) * 3600 + FloatVal(parts[2]) * 60
                       + FloatVal(parts[3]))
            ELSE RaisedValueError
        ELSE ReturnedNone
    ELSE IF FloatOk(time_str) THEN Value(FloatVal(time_str))
    ELSE RaisedValueError

-----------------------------------------------------------------------------
(* The command lines and the files they name *)

SizeLimitGB == 5

\* a file on disk: whether it exists, its size in GiB, whether VideoFileClip
\* can open it, and the duration of the clip it holds
Files ==
    {[exists |-> FALSE, size |-> 0, decodable |-> FALSE, duration |-> 0],
     [exists |-> TRUE, size |-> SizeLimitGB + 1, decodable |-> TRUE, duration |-> 1],
     [exists |-> TRUE, size |-> SizeLimitGB, decodable |-> TRUE, duration |-> 1],
     [exists |-> TRUE, size |-> 1, decodable |-> FALSE, duration |-> 0]}
    \cup {[exists |-> TRUE, size |-> 1, decodable |-> TRUE, duration |-> d] :
             d \in 1..MaxDur}

\* the start/end arguments tried: seconds, M:S, H:M:S, negative, malformed
TimeArgs ==
    {<<"0">>, <<"1">>, <<"2">>, <<"3">>, <<"4">>, <<"5">>,
     <<"-", "1">>, <<"-", "2">>, <<"-", "5">>, <<"+", "1">>, <<"0", "2">>,
     <<"1", "0">>, <<"1", ":", "0", ":", "0">>,
     <<"0", ":", "1">>, <<"0", ":", "0", ":", "2">>, <<"1", ":", "0">>,
     <<"0", ":", "-", "1">>,
     <<>>, <<"x">>, <<"1", ":", "x">>, <<"1", ":">>,
     <<"0", ":", "0", ":", "0", ":", "1">>,
     <<"1", ":", "2", ":", "3", ":", "4">>}

\* what input() can return at the overwrite prompt
Responses == {"y", "Y", "n", "N", "", "yes", " y"}

\* str.lower() on those answers
Lower(r) == CASE r = "Y" -> "y" [] r = "N" -> "n" [] OTHER -> r

CommandLines ==
    {[argparse |-> a, command |-> "none", input |-> <<>>, start |-> <<>>, end |-> <<>>] :
        a \in {"ok", "usage_error", "help"}}
    \cup {[argparse |-> "ok", command |-> "merge", input |-> fs, start |-> <<>>, end |-> <<>>] :
             fs \in UNION {[1..n -> Files] : n \in 1..MaxClips}}
    \cup {[argparse |-> "ok", command |-> c, input |-> <<f>>, start |-> a, end |-> b] :
             c \in {"trim", "remove"}, f \in Files, a \in TimeArgs, b \in TimeArgs}

Init ==
    /\ pc = "parse_args"
    /\ args \in CommandLines
    /\ output_exists \in BOOLEAN
    /\ start_seconds = NotParsed
    /\ end_seconds = NotParsed
    /\ handles = <<>>
    /\ closed = {}
    /\ clips = <<>>
    /\ final_clip = 0
    /\ total_duration = 0
    /\ trimmed_duration = 0
    /\ written = <<>>
    /\ success = "unset"
    /\ response = "unset"
    /\ events = <<>>
    /\ outcome = "running"
    /\ exit_status = NoExit

-----------------------------------------------------------------------------
(* Clips: the objects moviepy hands back *)

\* VideoFileClip(path) on the i-th input file
VideoFileClip(i, f) ==
    [kind |-> "file", src |-> i, t_start |-> 0, t_end |-> f.duration,
     parts |-> <<>>, duration |-> f.duration]

\* clip.subclip(t_start, t_end) as moviepy 1.x does it: a negative time counts
\* back from the end of the clip, and the new clip lasts t_end - t_start after
\* that.  (It raises only for a t_start beyond the clip, which the checks
\* before each call rule out.)
FromEnd(t, d) == IF t < 0 THEN d + t ELSE t

subclip(i, clip, t_start, t_end) ==
    [kind |-> "subclip", src |-> i, t_start |-> t_start, t_end |-> t_end,
     parts |-> <<>>,
     duration |-> FromEnd(t_end, clip.duration) - FromEnd(t_start, clip.duration)]

RECURSIVE SumDurations(_, _)
SumDurations(hs, idx) ==
    IF idx = <<>> THEN 0
    ELSE hs[Head(idx)].duration + SumDurations(hs, Tail(idx))

\* concatenate_videoclips(clips): the clips end to end, in the order given
concatenate_videoclips(hs, idx) ==
    [kind |-> "concat", src |-> 0, t_start |-> 0, t_end |-> SumDurations(hs, idx),
     parts |-> idx, duration |-> SumDurations(hs, idx)]

-----------------------------------------------------------------------------
(* main(): argument parsing, validation, the overwrite prompt *)

\* sys.exit(code), or main() returning (code 0)
Exit(code, why) ==
    /\ pc' = "done"
    /\ exit_status' = code
    /\ outcome' = why

\* the operation returned `result` to main()
Return(result) ==
    /\ success' = result
    /\ pc' = "report"
    /\ UNCHANGED <<exit_status, outcome>>

ParseArgs ==
    /\ pc = "parse_args"
    /\ IF args.argparse = "usage_error" THEN Exit(2, "usage_error")
       ELSE IF args.argparse = "help" THEN Exit(0, "help")
       ELSE IF args.command = "none" THEN Exit(0, "no_command")
       ELSE /\ pc' = "validate_files"
            /\ UNCHANGED <<exit_status, outcome>>
    /\ UNCHANGED <<args, output_exists, start_seconds, end_seconds, handles,
                   closed, clips, final_clip, total_duration, trimmed_duration, written, success, response,
                   events>>

TooLarge(f) == f.size > SizeLimitGB

validate_files(file_paths) ==
    \A i \in 1..Len(file_paths) :
        file_paths[i].exists /\ ~TooLarge(file_paths[i])

ValidateFiles ==
    /\ pc = "validate_files"
    /\ events' = Append(events, "validate")
    /\ IF ~validate_files(args.input) THEN Exit(1, "validation_failed")
       ELSE /\ pc' = IF args.command = "merge" THEN "check_output" ELSE "parse_time"
            /\ UNCHANGED <<exit_status, outcome>>
    /\ UNCHANGED <<args, output_exists, start_seconds, end_seconds, handles,
                   closed, clips, final_clip, total_duration, trimmed_duration, written, success, response>>

\* the answer that cancels the merge
DeclinedMut(r) == Lower(r) = "n"
Declined(r) == Lower(r) # "y"

\* merge only: the overwrite prompt; input() can also raise EOFError
CheckOutput ==
    /\ pc = "check_output"
    /\ IF output_exists THEN
           /\ events' = Append(events, "prompt")
           /\ \/ \E r \in Responses :
                    /\ response' = r
                    /\ IF Declined(r) THEN Exit(0, "declined")
                       ELSE /\ pc' = "m_load"
                            /\ UNCHANGED <<exit_status, outcome>>
              \/ /\ response' = "EOFError"
                 /\ Exit(1, "unexpected_exception")
       ELSE /\ pc' = "m_load"
            /\ UNCHANGED <<events, response, exit_status, outcome>>
    /\ UNCHANGED <<args, output_exists, start_seconds, end_seconds, handles,
                   closed, clips, final_clip, total_duration, trimmed_duration, written, success>>

\* trim and remove: parse_time(args.start), then parse_time(args.end)
ParseTimes ==
    /\ pc = "parse_time"
    /\ LET s == parse_time(args.start)
           e == parse_time(args.end) IN
       IF s.kind = "ValueError" THEN
           /\ Exit(1, "time_parse_failed")
           /\ UNCHANGED <<start_seconds, end_seconds>>
       ELSE IF e.kind = "ValueError" THEN
           /\ Exit(1, "time_parse_failed")
           /\ start_seconds' = s
           /\ UNCHANGED end_seconds
       ELSE
           /\ start_seconds' = s
           /\ end_seconds' = e
           /\ pc' = IF args.command = "trim" THEN "t_open" ELSE "r_open"
           /\ UNCHANGED <<exit_status, outcome>>
    /\ UNCHANGED <<args, output_exists, handles, closed, clips, final_clip,
                   total_duration, trimmed_duration, written, success, response,
                   events>>

-----------------------------------------------------------------------------
(* write_videofile and the exits of an operation, shared by the three *)

\* final_clip.write_videofile(output_path, ...): it may raise; after it
\* returns the output file exists
WriteVideofile(next) ==
    /\ events' = Append(events, "write")
    /\ \E ok \in BOOLEAN :
          /\ written' = Append(written, [clip |-> final_clip, ok |-> ok])
          /\ IF ok THEN /\ output_exists' = TRUE
                        /\ pc' = next
                        /\ UNCHANGED <<success, exit_status, outcome>>
             ELSE /\ Return("False")
                  /\ UNCHANGED output_exists

Range(seq) == {seq[i] : i \in 1..Len(seq)}

-----------------------------------------------------------------------------
(* merge_videos *)

\* clips.append(clip)
AddClipMut(cs, c) == <<c>> \o cs
AddClip(cs, c) == Append(cs, c)

\* one turn of the loading loop: open the next input, or raise and return False
MergeLoad ==
    /\ pc = "m_load"
    /\ LET i == Len(clips) + 1
           f == args.input[i] IN
       IF f.decodable THEN
           /\ handles' = Append(handles, VideoFileClip(i, f))
           /\ clips' = AddClip(clips, Len(handles) + 1)
           /\ total_duration' = total_duration + f.duration
           /\ events' = Append(events, "open")
           /\ pc' = IF i = Len(args.input) THEN "m_concat" ELSE "m_load"
           /\ UNCHANGED <<success, exit_status, outcome>>
       ELSE
           /\ Return("False")
           /\ UNCHANGED <<handles, clips, total_duration, events>>
    /\ UNCHANGED <<args, output_exists, start_seconds, end_seconds, closed,
                   final_clip, trimmed_duration, written, response>>

MergeConcat ==
    /\ pc = "m_concat"
    /\ handles' = Append(handles, concatenate_videoclips(handles, clips))
    /\ final_clip' = Len(handles) + 1
    /\ pc' = "m_write"
    /\ UNCHANGED <<args, output_exists, start_seconds, end_seconds, closed,
                   clips, total_duration, trimmed_duration, written, success,
                   response, events, outcome, exit_status>>

MergeWrite ==
    /\ pc = "m_write"
    /\ WriteVideofile("m_close")
    /\ UNCHANGED <<args, start_seconds, end_seconds, handles, closed, clips,
                   final_clip, total_duration, trimmed_duration, response>>

\* for clip in clips: clip.close(); final_clip.close(); return True
MergeCleanup ==
    /\ pc = "m_close"
    /\ closed' = closed \cup Range(clips) \cup {final_clip}
    /\ Return("True")
    /\ UNCHANGED <<args, output_exists, start_seconds, end_seconds, handles,
                   clips, final_clip, total_duration, trimmed_duration, written,
                   response, events>>

-----------------------------------------------------------------------------
(* trim_video *)

TrimOpen ==
    /\ pc = "t_open"
    /\ IF args.input[1].decodable THEN
           /\ handles' = Append(handles, VideoFileClip(1, args.input[1]))
           /\ events' = Append(events, "open")
           /\ pc' = "t_validate"
           /\ UNCHANGED <<success, exit_status, outcome>>
       ELSE
           /\ Return("False")
           /\ UNCHANGED <<handles, events>>
    /\ UNCHANGED <<args, output_exists, start_seconds, end_seconds, closed,
                   clips, final_clip, total_duration, trimmed_duration, written,
                   response>>

\* if start_time >= clip.duration
TrimStartBeyond(s, d) == s >= d

\* if end_time > clip.duration: end_time = clip.duration
TrimClampEnd(e, d) == IF e > d THEN d ELSE e

\* if start_time >= end_time
TrimRangeEmptyMut(s, e) == s > e
TrimRangeEmpty(s, e) == s >= e

\* the time checks and the subclip call; comparing None with a number
\* raises TypeError, which the except clause turns into False
TrimValidate ==
    /\ pc = "t_validate"
    /\ LET d == handles[1].duration
           s == start_seconds
           e == end_seconds IN
       IF s.kind = "None" THEN
           Return("False") /\ UNCHANGED <<handles, final_clip, trimmed_duration>>
       ELSE IF TrimStartBeyond(s.val, d) THEN
           Return("False") /\ UNCHANGED <<handles, final_clip, trimmed_duration>>
       ELSE IF e.kind = "None" THEN
           Return("False") /\ UNCHANGED <<handles, final_clip, trimmed_duration>>
       ELSE IF TrimRangeEmpty(s.val, TrimClampEnd(e.val, d)) THEN
           Return("False") /\ UNCHANGED <<handles, final_clip, trimmed_duration>>
       ELSE
           /\ handles' = Append(handles,
                                subclip(1, handles[1], s.val, TrimClampEnd(e.val, d)))
           /\ final_clip' = Len(handles) + 1
           /\ trimmed_duration' = TrimClampEnd(e.val, d) - s.val
           /\ pc' = "t_write"
           /\ UNCHANGED <<success, exit_status, outcome>>
    /\ UNCHANGED <<args, output_exists, start_seconds, end_seconds, closed,
                   clips, total_duration, written, response, events>>

TrimWrite ==
    /\ pc = "t_write"
    /\ WriteVideofile("t_close")
    /\ UNCHANGED <<args, start_seconds, end_seconds, handles, closed, clips,
                   final_clip, total_duration, trimmed_duration, response>>

\* clip.close(); trimmed_clip.close(); return True
TrimCleanup ==
    /\ pc = "t_close"
    /\ closed' = closed \cup {1, final_clip}
    /\ Return("True")
    /\ UNCHANGED <<args, output_exists, start_seconds, end_seconds, handles,
                   clips, final_clip, total_duration, trimmed_duration, written,
                   response, events>>

-----------------------------------------------------------------------------
(* remove_segment *)

RemoveOpen ==
    /\ pc = "r_open"
    /\ IF args.input[1].decodable THEN
           /\ handles' = Append(handles, VideoFileClip(1, args.input[1]))
           /\ events' = Append(events, "open")
           /\ pc' = "r_validate"
           /\ UNCHANGED <<success, exit_status, outcome>>
       ELSE
           /\ Return("False")
           /\ UNCHANGED <<handles, events>>
    /\ UNCHANGED <<args, output_exists, start_seconds, end_seconds, closed,
                   clips, final_clip, total_duration, trimmed_duration, written,
                   response>>

\* if start_time >= clip.duration or end_time > clip.duration
RemoveBeyondMut(s, e, d) == s >= d
RemoveBeyond(s, e, d) == s >= d \/ e > d

\* if start_time >= end_time
RemoveRangeEmpty(s, e) == s >= e

\* the (t_start, t_end) of the subclip calls that fill clips_to_concat
RetainedRangesMut(s, e, d) ==
    (IF e < d THEN << <<e, d>> >> ELSE <<>>)
    \o (IF s > 0 THEN << <<0, s>> >> ELSE <<>>)
RetainedRanges(s, e, d) ==
    (IF s > 0 THEN << <<0, s>> >> ELSE <<>>)
    \o (IF e < d THEN << <<e, d>> >> ELSE <<>>)

\* the time checks, the subclip calls and the choice of final_clip; `or`
\* does not look at end_time when start_time >= clip.duration already holds
RemoveValidate ==
    /\ pc = "r_validate"
    /\ LET d == handles[1].duration
           s == start_seconds
           e == end_seconds
           ranges == RetainedRanges(s.val, e.val, d)
           subs == [k \in 1..Len(ranges) |->
                       subclip(1, handles[1], ranges[k][1], ranges[k][2])]
           cs == [k \in 1..Len(ranges) |-> Len(handles) + k]
           hs == handles \o subs IN
       IF s.kind = "None" \/ (s.val < d /\ e.kind = "None") THEN
           Return("False") /\ UNCHANGED <<handles, clips, final_clip>>
       ELSE IF RemoveBeyond(s.val, e.val, d) THEN
           Return("False") /\ UNCHANGED <<handles, clips, final_clip>>
       ELSE IF RemoveRangeEmpty(s.val, e.val) THEN
           Return("False") /\ UNCHANGED <<handles, clips, final_clip>>
       ELSE IF ranges = <<>> THEN
           Return("False") /\ UNCHANGED <<handles, clips, final_clip>>
       ELSE
           /\ clips' = cs
           /\ IF Len(cs) = 1
              THEN /\ handles' = hs
                   /\ final_clip' = cs[1]
              ELSE /\ handles' = Append(hs, concatenate_videoclips(hs, cs))
                   /\ final_clip' = Len(hs) + 1
           /\ pc' = "r_write"
           /\ UNCHANGED <<success, exit_status, outcome>>
    /\ UNCHANGED <<args, output_exists, start_seconds, end_seconds, closed,
                   total_duration, trimmed_duration, written, response, events>>

RemoveWrite ==
    /\ pc = "r_write"
    /\ WriteVideofile("r_close")
    /\ UNCHANGED <<args, start_seconds, end_seconds, handles, closed, clips,
                   final_clip, total_duration, trimmed_duration, response>>

\* clip.close(); each of clips_to_concat closed; final_clip.close() when it
\* is a concatenation; return True
RemoveCleanup ==
    /\ pc = "r_close"
    /\ closed' = closed \cup {1} \cup Range(clips)
                 \cup (IF Len(clips) > 1 THEN {final_clip} ELSE {})
    /\ Return("True")
    /\ UNCHANGED <<args, output_exists, start_seconds, end_seconds, handles,
                   clips, final_clip, total_duration, trimmed_duration, written,
                   response, events>>

-----------------------------------------------------------------------------
(* main(): the end of the run *)

\* if success: ... (main returns)  else: sys.exit(1)
ReportExitMut(result) == 0
ReportExit(result) == IF result = "True" THEN 0 ELSE 1

Report ==
    /\ pc = "report"
    /\ Exit(ReportExit(success), IF success = "True" THEN "succeeded" ELSE "op_failed")
    /\ UNCHANGED <<args, output_exists, start_seconds, end_seconds, handles,
                   closed, clips, final_clip, total_duration, trimmed_duration,
                   written, success, response, events>>

\* Ctrl-C while main() is inside its try block: except KeyboardInterrupt
Interrupt ==
    /\ pc # "done"
    /\ Exit(1, "interrupted")
    /\ UNCHANGED <<args, output_exists, start_seconds, end_seconds, handles,
                   closed, clips, final_clip, total_duration, trimmed_duration,
                   written, success, response, events>>

Next ==
    \/ ParseArgs
    \/ ValidateFiles
    \/ CheckOutput
    \/ ParseTimes
    \/ MergeLoad
    \/ MergeConcat
    \/ MergeWrite
    \/ MergeCleanup
    \/ TrimOpen
    \/ TrimValidate
    \/ TrimWrite
    \/ TrimCleanup
    \/ RemoveOpen
    \/ RemoveValidate
    \/ RemoveWrite
    \/ RemoveCleanup
    \/ Report
    \/ Interrupt

Spec == Init /\ [][Next]_vars

-----------------------------------------------------------------------------
(* Properties *)

Min(a, b) == IF a < b THEN a ELSE b

AllHandles == 1..Len(handles)

TimesAreNumbers == start_seconds.kind = "float" /\ end_seconds.kind = "float"

\* the operation ran its time checks and was not cut short by Ctrl-C
Decided(validate_pc) ==
    /\ handles # <<>>
    /\ pc # validate_pc
    /\ outcome # "interrupted"

\* C1: in merge_videos, trim_video and remove_segment every clip that was
\* opened or derived has been closed by the time the operation returns,
\* whether it returns True or False.
C1_HandlesReleasedOnReturn ==
    success # "unset" => \A i \in AllHandles : i \in closed

\* how the run ended, read off the state: the ways main() can finish
EndedAs(why) ==
    CASE why = "succeeded" -> success = "True" /\ outcome = "succeeded"
      [] why = "declined" ->
            /\ args.command = "merge"
            /\ response \in Responses /\ response \notin {"y", "Y"}
      [] why = "no_command" ->
            args.argparse = "ok" /\ args.command = "none" /\ outcome = "no_command"
      [] why = "help" -> args.argparse = "help" /\ outcome = "help"
      [] why = "usage_error" ->
            args.argparse = "usage_error" /\ outcome = "usage_error"
      [] why = "validation_failed" ->
            /\ outcome = "validation_failed"
            /\ \E i \in 1..Len(args.input) :
                  ~args.input[i].exists \/ args.input[i].size > 5
      [] why = "time_parse_failed" ->
            outcome = "time_parse_failed" /\ ~TimesAreNumbers
      [] why = "op_failed" -> success = "False" /\ outcome = "op_failed"
      [] why = "unexpected_exception" ->
            outcome = "unexpected_exception" /\ response = "EOFError"
      [] why = "interrupted" -> outcome = "interrupted"

Endings ==
    {"succeeded", "declined", "no_command", "help", "usage_error",
     "validation_failed", "time_parse_failed", "op_failed",
     "unexpected_exception", "interrupted"}

\* C2 as stated: the exit status is 0 exactly when the operation succeeded,
\* the overwrite prompt was declined or no subcommand was given, and 1 for
\* every other outcome.
C2_ExitZeroOrOne ==
    pc = "done" =>
        /\ \E why \in Endings : EndedAs(why)
        /\ exit_status = (IF \/ EndedAs("succeeded")
                             \/ EndedAs("declined")
                             \/ EndedAs("no_command")
                          THEN 0 ELSE 1)

\* C2 amended: the exit status is 0 exactly when the operation succeeded,
\* the overwrite prompt was declined, no subcommand was given or argparse
\* printed its help (-h); 2 when argparse rejects the command line; 1 for
\* every other outcome: a validation failure, a ValueError from parse_time,
\* a False result, an unexpected exception and Ctrl-C.
C2_ExitStatusByOutcome ==
    pc = "done" =>
        /\ \E why \in Endings : EndedAs(why)
        /\ exit_status = (IF \/ EndedAs("succeeded")
                             \/ EndedAs("declined")
                             \/ EndedAs("no_command")
                             \/ EndedAs("help")
                          THEN 0
                          ELSE IF EndedAs("usage_error") THEN 2
                          ELSE 1)

C2_UsageErrorExitsTwo ==
    /\ pc = "done"
    /\ args.argparse = "usage_error"
    /\ exit_status = 2

\* C3: trim with start >= duration, or start >= min(end, duration), returns
\* False: write_videofile is never called and the run ends with status 1.
C3_TrimRejectsEmptyRange ==
    ( /\ args.command = "trim"
      /\ TimesAreNumbers
      /\ handles # <<>>
      /\ \/ start_seconds.val >= handles[1].duration
         \/ start_seconds.val >= Min(end_seconds.val, handles[1].duration) )
    => /\ written = <<>>
       /\ pc \notin {"t_write", "t_close"}
       /\ success # "True"
       /\ Decided("t_validate") => success = "False"
       /\ pc = "done" => exit_status = 1

\* `trim input.mp4 out.mp4 2 1` on a clip longer than 2 s has failed
C3_TrimTwoOneFailed ==
    /\ args.command = "trim"
    /\ pc = "done"
    /\ handles # <<>>
    /\ TimesAreNumbers
    /\ start_seconds.val < handles[1].duration
    /\ start_seconds.val > end_seconds.val
    /\ end_seconds.val > 0
    /\ success = "False"
    /\ exit_status = 1

\* C4: trim with end > duration and start < duration does not fail on the
\* range: it calls subclip(start, duration) and the clip it writes lasts
\* duration - start.
C4_TrimClampsEnd ==
    ( /\ args.command = "trim"
      /\ TimesAreNumbers
      /\ Decided("t_validate")
      /\ end_seconds.val > handles[1].duration
      /\ start_seconds.val < handles[1].duration )
    => /\ Len(handles) = 2
       /\ handles[2].kind = "subclip"
       /\ handles[2].t_start = start_seconds.val
       /\ handles[2].t_end = handles[1].duration
       /\ handles[2].duration = handles[1].duration - start_seconds.val
       /\ \A k \in 1..Len(written) : written[k].clip = 2

RemoveFailed == Decided("r_validate") /\ pc \in {"report", "done"} /\ written = <<>>
RemovePassed == Decided("r_validate") /\ (pc \in {"r_write", "r_close"} \/ written # <<>>)

C6_RemoveKeepsOutside ==
    (args.command = "remove" /\ TimesAreNumbers /\ RemovePassed) =>
        LET s == start_seconds.val
            e == end_seconds.val
            d == handles[1].duration
            n == (IF s > 0 THEN 1 ELSE 0) + (IF e < d THEN 1 ELSE 0)
            IsRange(h, a, b) == h.kind = "subclip" /\ h.t_start = a /\ h.t_end = b IN
        /\ n >= 1
        /\ clips = [k \in 1..n |-> 1 + k]
        /\ s > 0 => IsRange(handles[2], 0, s)
        /\ e < d => IsRange(handles[1 + n], e, d)
        /\ n = 1 => (Len(handles) = 2 /\ final_clip = 2)
        /\ n = 2 => /\ Len(handles) = 4
                    /\ final_clip = 4
                    /\ handles[4].kind = "concat"
                    /\ handles[4].parts = <<2, 3>>
        /\ \A k \in 1..Len(written) : written[k].clip = final_clip
        /\ (0 < s /\ s < e /\ e < d) => handles[final_clip].duration = d - (e - s)

\* removing 1..2 from a 3 s clip has written a 2 s clip
C6_MiddleRemoved ==
    /\ args.command = "remove"
    /\ TimesAreNumbers
    /\ start_seconds.val = 1
    /\ end_seconds.val = 2
    /\ Len(handles) = 4
    /\ handles[1].duration = 3
    /\ Len(written) = 1
    /\ written[1].ok
    /\ handles[written[1].clip].duration = 2

RECURSIVE SumOfInputs(_)
SumOfInputs(fs) == IF fs = <<>> THEN 0 ELSE Head(fs).duration + SumOfInputs(Tail(fs))

\* C7: merge opens the inputs in the order given, concatenates them in that
\* order, and the written clip and the reported total both last the sum of
\* the input durations.
C7_MergeKeepsOrderAndSum ==
    (args.command = "merge" /\ (pc = "m_write" \/ written # <<>>)) =>
        LET n == Len(args.input) IN
        /\ Len(handles) = n + 1
        /\ \A i \in 1..n : handles[i].kind = "file" /\ handles[i].src = i
        /\ handles[n + 1].kind = "concat"
        /\ handles[n + 1].parts = [i \in 1..n |-> i]
        /\ handles[n + 1].duration = SumOfInputs(args.input)
        /\ total_duration = SumOfInputs(args.input)
        /\ \A k \in 1..Len(written) : written[k].clip = n + 1

\* two clips of different lengths were merged and written
C7_TwoClipsMerged ==
    /\ args.command = "merge"
    /\ Len(args.input) = 2
    /\ args.input[1].duration = 1
    /\ args.input[2].duration = 2
    /\ Len(written) = 1
    /\ written[1].ok
    /\ handles[written[1].clip].duration = 3
    /\ success = "True"

AllFloats(parts) == \A i \in 1..Len(parts) : FloatOk(parts[i])

WellFormed(a) == Len(Split(a)) \in 1..3 /\ AllFloats(Split(a))

\* H*3600 + M*60 + S, absent components counting as 0
Seconds(a) ==
    LET parts == Split(a)
        n == Len(parts) IN
    (IF n = 3 THEN FloatVal(parts[1]) * 3600 ELSE 0)
    + (IF n >= 2 THEN FloatVal(parts[n - 1]) * 60 ELSE 0)
    + FloatVal(parts[n])

\* C8: parse_time returns H*3600 + M*60 + S for a string of one, two or
\* three numeric components, and raises ValueError for every other string
\* (a non-numeric component, four or more components), so that main exits
\* with status 1 before any clip is opened.
C8_ParseTimeTotal ==
    ( /\ args.command \in {"trim", "remove"}
      /\ (start_seconds.kind # "unset" \/ outcome = "time_parse_failed") )
    => /\ WellFormed(args.start) => start_seconds = Value(Seconds(args.start))
       /\ (WellFormed(args.start) /\ WellFormed(args.end))
             => end_seconds = Value(Seconds(args.end))
       /\ (~WellFormed(args.start) \/ ~WellFormed(args.end))
             => /\ outcome = "time_parse_failed"
                /\ exit_status = 1
                /\ handles = <<>>

\* C9: when the merge output exists the prompt comes right after the file
\* validation and before any clip is opened; an answer other than y or Y
\* ends the run with status 0, no clip opened and nothing written.
C9_PromptBeforeMerge ==
    args.command = "merge" =>
        /\ (output_exists /\ handles # <<>> /\ written = <<>>)
              => (Len(events) >= 2 /\ events[2] = "prompt")
        /\ \A k \in 1..Len(events) :
              events[k] = "prompt" =>
                  /\ k = 2
                  /\ events[1] = "validate"
                  /\ response # "unset"
        /\ (response \in Responses /\ response \notin {"y", "Y"})
              => /\ handles = <<>>
                 /\ written = <<>>
                 /\ pc = "done"
                 /\ exit_status = 0

C9_DeclinedWithYes ==
    /\ args.command = "merge"
    /\ response = "yes"
    /\ pc = "done"
    /\ exit_status = 0
    /\ handles = <<>>

\* C10: every subclip(start, end) call of trim_video and remove_segment has
\* 0 <= start < end <= clip.duration.
C10_SubclipWithinClip ==
    \A i \in AllHandles :
        handles[i].kind = "subclip" =>
            /\ 0 <= handles[i].t_start
            /\ handles[i].t_start < handles[i].t_end
            /\ handles[i].t_end <= handles[handles[i].src].duration

====
